---- MODULE Spec2Model ----
(***************************************************************************)
(* replace_image_paths.py: rewriting of <img src="..."> URLs inside the    *)
(* .content fragment of article.html files to image-2.webp, image-3.webp.. *)
(*                                                                         *)
(* Text is a sequence of one-character strings.  Offsets are Python's      *)
(* 0-based offsets; Slice(s, a, b) is s[a:b].                              *)
(***************************************************************************)
EXTENDS Integers, Sequences, FiniteSets, TLC

\* ---------------------------------------------------------------- bounds
MaxPieces == 3      \* pieces concatenated into a fragment (engine inputs)
MaxRuns == 2        \* invocations of main() in one behaviour
MaxImgs == 2        \* <img> pieces of an article's fragment (article inputs)

\* ------------------------------------------------------- string literals
DIV_OPEN == <<"<", "d", "i", "v", " ", "c", "l", "a", "s", "s", "=", "\"", "c", "o", "n", "t", "e", "n", "t", "\"", ">">>
DIV_CLOSE == <<"<", "/", "d", "i", "v", ">">>
BODY_CLOSE == <<"<", "/", "b", "o", "d", "y", ">">>
IMG_OPEN == <<"<", "i", "m", "g">>
SRC_EQ == <<"s", "r", "c", "=", "\"">>
IMAGE_PREFIX == <<"i", "m", "a", "g", "e", "-">>
WEBP_SUFFIX == <<".", "w", "e", "b", "p">>
NO_CONTENT_ERROR == <<"S", "e", "z", "i", "o", "n", "e", " ", ".", "c", "o", "n", "t", "e", "n", "t", " ", "n", "o", "n", " ", "t", "r", "o", "v", "a", "t", "a">>
MISSING_TEXT == <<" ", "i", "m", "m", "a", "g", "i", "n", "i", " ", "m", "a", "n", "c", "a", "n", "t", "i", ":", " ">>
QUOTE == "\""
LF == "\n"
CR == "\r"
\* the characters of \s that occur in the inputs
Whitespace == {" ", "\n", "\t", "\r"}
Digits == <<"0", "1", "2", "3", "4", "5", "6", "7", "8", "9">>

\* ------------------------------------------------------ Python strings
Min(a, b) == IF a < b THEN a ELSE b
Max(a, b) == IF a > b THEN a ELSE b

\* a slice bound as Python normalises it: negative counts from the end,
\* and the result is clipped to 0..n
NormIndex(k, n) == IF k < 0 THEN Max(k + n, 0) ELSE Min(k, n)

\* s[a:b]
Slice(s, a, b) == SubSeq(s, NormIndex(a, Len(s)) + 1, NormIndex(b, Len(s)))

\* s[:b] and s[a:]
SliceTo(s, b) == Slice(s, 0, b)
SliceFrom(s, a) == Slice(s, a, Len(s))

\* the literal p occurs in s at offset pos
StartsAt(s, p, pos) ==
    /\ pos >= 0
    /\ pos + Len(p) <= Len(s)
    /\ SubSeq(s, pos + 1, pos + Len(p)) = p

\* s.startswith(p), s.endswith(p)
StartsWith(s, p) == StartsAt(s, p, 0)
EndsWith(s, p) == StartsAt(s, p, Len(s) - Len(p))

\* x in list
InList(x, list) == \E j \in 1..Len(list) : list[j] = x

RECURSIVE Concat(_)
Concat(ss) == IF ss = <<>> THEN <<>> ELSE Head(ss) \o Concat(Tail(ss))

\* str(n) for n >= 0, as the f-strings format an int
RECURSIVE IntToStr(_)
IntToStr(n) ==
    IF n < 10 THEN <<Digits[n + 1]>>
    ELSE IntToStr(n \div 10) \o <<Digits[(n % 10) + 1]>>

IsDigit(c) == \E d \in 1..10 : Digits[d] = c
DigitValue(c) == (CHOOSE d \in 1..10 : Digits[d] = c) - 1

\* ------------------------------------------------------ regex pieces
\* the least element of a non-empty set of integers
Least(S) == CHOOSE q \in S : \A r \in S : q <= r

\* end of the greedy run \s* starting at pos: the first offset from pos
\* on that holds no whitespace
SkipWhitespace(s, pos) ==
    Least({q \in pos..Len(s) : q = Len(s) \/ s[q + 1] \notin Whitespace})

\* end of the greedy run [^"]* starting at pos
SkipNonQuote(s, pos) ==
    Least({q \in pos..Len(s) : q = Len(s) \/ s[q + 1] = QUOTE})

\* end of the greedy run \d* starting at pos
SkipDigits(s, pos) ==
    Least({q \in pos..Len(s) : q = Len(s) \/ ~IsDigit(s[q + 1])})

\* int(digits)
RECURSIVE ParseInt(_)
ParseInt(ds) ==
    IF ds = <<>> THEN 0
    ELSE 10 * ParseInt(SubSeq(ds, 1, Len(ds) - 1)) + DigitValue(ds[Len(ds)])

\* ---------------------------------------------------- file input/output
\* f.read() of a file opened in text mode with the default newline=None:
\* "\r\n" and a lone "\r" both read as "\n"
IsKept(c) == c # ""
read_text(bytes) ==
    LET marked == [j \in 1..Len(bytes) |->
                      IF bytes[j] = CR THEN LF
                      ELSE IF bytes[j] = LF /\ j > 1 /\ bytes[j - 1] = CR THEN ""
                      ELSE bytes[j]]
    IN SelectSeq(marked, IsKept)

\* f.write(text) of a file opened in text mode with the default newline=None:
\* every "\n" is written as os.linesep
RECURSIVE write_text(_, _)
write_text(text, sep) ==
    IF text = <<>> THEN <<>>
    ELSE IF Len(text) = 1 THEN (IF text[1] = LF THEN sep ELSE text)
    ELSE LET half == Len(text) \div 2
         IN write_text(SubSeq(text, 1, half), sep)
            \o write_text(SubSeq(text, half + 1, Len(text)), sep)

\* ------------------------------------------------------ Image Inventory
\* int(re.search(r'image-(\d+)', x).group(1)); -1 stands for the search
\* finding nothing (the code then raises AttributeError)
ImageNumber(x) ==
    LET hits == {p \in 0..Len(x) :
                    /\ StartsAt(x, IMAGE_PREFIX, p)
                    /\ SkipDigits(x, p + Len(IMAGE_PREFIX)) > p + Len(IMAGE_PREFIX)}
    IN IF hits = {} THEN -1
       ELSE LET p == Least(hits)
                a == p + Len(IMAGE_PREFIX)
            IN ParseInt(Slice(x, a, SkipDigits(x, a)))

\* sorted(images, key=...)
RECURSIVE SortByImageNumber(_)
SortByImageNumber(names) ==
    IF names = {} THEN <<>>
    ELSE LET first == CHOOSE x \in names :
                          \A y \in names : ImageNumber(x) <= ImageNumber(y)
         IN <<first>> \o SortByImageNumber(names \ {first})

\* get_available_images(folder): `listing` is the set of names iterdir yields
get_available_images(listing) ==
    SortByImageNumber({f \in listing :
                          StartsWith(f, IMAGE_PREFIX) /\ EndsWith(f, WEBP_SUFFIX)})

\* ----------------------------------------------------- Content Extractor
\* </div>\s*</body> matches at offset e
ClosesAt(html, e) ==
    /\ StartsAt(html, DIV_CLOSE, e)
    /\ StartsAt(html, BODY_CLOSE, SkipWhitespace(html, e + Len(DIV_CLOSE)))

\* re.search(r'(<div class="content">)(.*?)(</div>\s*</body>)', html, re.DOTALL):
\* the leftmost opening tag that some closing boundary follows, then the
\* nearest such boundary
extract_content_section(html) ==
    LET closes(p) == {e \in (p + Len(DIV_OPEN))..Len(html) : ClosesAt(html, e)}
        opens == {p \in 0..Len(html) :
                     StartsAt(html, DIV_OPEN, p) /\ closes(p) # {}}
    IN IF opens # {}
       THEN LET p == Least(opens)
                start == p + Len(DIV_OPEN)
                end == Least(closes(p))
            IN [start |-> start, end |-> end, content |-> Slice(html, start, end)]
       ELSE [start |-> -1, end |-> -1, content |-> <<>>]

\* -------------------------------------------------------- Rewrite Engine
\* <img\s+src="([^"]+)" tried at offset p: the spans of group 1 and of
\* the whole match, or ok = FALSE
ImgMatchAt(content, p) ==
    LET ws == p + Len(IMG_OPEN)
        src == SkipWhitespace(content, ws)
        s1 == src + Len(SRC_EQ)
        e1 == SkipNonQuote(content, s1)
    IN IF /\ StartsAt(content, IMG_OPEN, p)
          /\ src > ws
          /\ StartsAt(content, SRC_EQ, src)
          /\ e1 > s1
          /\ e1 < Len(content)
       THEN [ok |-> TRUE, s1 |-> s1, e1 |-> e1, end |-> e1 + 1]
       ELSE [ok |-> FALSE, s1 |-> -1, e1 |-> -1, end |-> -1]

\* list(img_pattern.finditer(content)) scanning from offset p: the
\* non-overlapping matches, left to right
RECURSIVE FindIterFrom(_, _)
FindIterFrom(content, p) ==
    LET hits == {q \in p..Len(content) : ImgMatchAt(content, q).ok}
    IN IF hits = {} THEN <<>>
       ELSE LET m == ImgMatchAt(content, Least(hits))
            IN <<m>> \o FindIterFrom(content, m.end)

finditer(content) == FindIterFrom(content, 0)

\* variant: the filenames are numbered from the display index
ExpectedFilename_FromDisplayIndex(image_index) ==
    IMAGE_PREFIX \o IntToStr(image_index - 1) \o WEBP_SUFFIX

\* f"image-{image_index}.webp"
ExpectedFilename(image_index) ==
    IMAGE_PREFIX \o IntToStr(image_index) \o WEBP_SUFFIX

\* variant: a missing file leaves no Change Record
LoopBody_DropMissing(st, i, m, content, available_images) ==
    LET expected_filename == ExpectedFilename(i + 2)
        old_url == Slice(content, m.s1, m.e1)
        start == m.s1 + st.offset
        end == m.e1 + st.offset
    IN IF InList(expected_filename, available_images)
       THEN [new_content |-> SliceTo(st.new_content, start) \o expected_filename
                                  \o SliceFrom(st.new_content, end),
             offset |-> st.offset + Len(expected_filename) - Len(old_url),
             changes |-> Append(st.changes,
                                [index |-> i + 1, old_url |-> old_url,
                                 new_url |-> expected_filename, exists |-> TRUE])]
       ELSE st

\* variant: the spans of the original fragment are used without the offset
LoopBody_NoOffset(st, i, m, content, available_images) ==
    LET expected_filename == ExpectedFilename(i + 2)
        old_url == Slice(content, m.s1, m.e1)
        start == m.s1
        end == m.e1
    IN IF InList(expected_filename, available_images)
       THEN [new_content |-> SliceTo(st.new_content, start) \o expected_filename
                                  \o SliceFrom(st.new_content, end),
             offset |-> st.offset + Len(expected_filename) - Len(old_url),
             changes |-> Append(st.changes,
                                [index |-> i + 1, old_url |-> old_url,
                                 new_url |-> expected_filename, exists |-> TRUE])]
       ELSE [st EXCEPT !.changes =
                Append(st.changes,
                       [index |-> i + 1, old_url |-> old_url,
                        new_url |-> expected_filename, exists |-> FALSE])]

\* variant: the offset is set to the last length difference, not summed
LoopBody_LastOffset(st, i, m, content, available_images) ==
    LET expected_filename == ExpectedFilename(i + 2)
        old_url == Slice(content, m.s1, m.e1)
        start == m.s1 + st.offset
        end == m.e1 + st.offset
    IN IF InList(expected_filename, available_images)
       THEN [new_content |-> SliceTo(st.new_content, start) \o expected_filename
                                  \o SliceFrom(st.new_content, end),
             offset |-> Len(expected_filename) - Len(old_url),
             changes |-> Append(st.changes,
                                [index |-> i + 1, old_url |-> old_url,
                                 new_url |-> expected_filename, exists |-> TRUE])]
       ELSE [st EXCEPT !.changes =
                Append(st.changes,
                       [index |-> i + 1, old_url |-> old_url,
                        new_url |-> expected_filename, exists |-> FALSE])]

\* variant: the filename is inserted in front of the URL, which stays
LoopBody_Insert(st, i, m, content, available_images) ==
    LET expected_filename == ExpectedFilename(i + 2)
        old_url == Slice(content, m.s1, m.e1)
        start == m.s1 + st.offset
    IN IF InList(expected_filename, available_images)
       THEN [new_content |-> SliceTo(st.new_content, start) \o expected_filename
                                  \o SliceFrom(st.new_content, start),
             offset |-> st.offset + Len(expected_filename),
             changes |-> Append(st.changes,
                                [index |-> i + 1, old_url |-> old_url,
                                 new_url |-> expected_filename, exists |-> TRUE])]
       ELSE [st EXCEPT !.changes =
                Append(st.changes,
                       [index |-> i + 1, old_url |-> old_url,
                        new_url |-> expected_filename, exists |-> FALSE])]

\* one pass of the for loop, for the i-th match (0-based) m; st holds
\* new_content, offset and changes
LoopBody(st, i, m, content, available_images) ==
    LET image_index == i + 2
        expected_filename == ExpectedFilename(image_index)
        old_url == Slice(content, m.s1, m.e1)
    IN IF InList(expected_filename, available_images)
       THEN LET new_url == expected_filename
                start == m.s1 + st.offset
                end == m.e1 + st.offset
            IN [new_content |-> SliceTo(st.new_content, start) \o new_url
                                  \o SliceFrom(st.new_content, end),
                offset |-> st.offset + Len(new_url) - Len(old_url),
                changes |-> Append(st.changes,
                                   [index |-> i + 1, old_url |-> old_url,
                                    new_url |-> new_url, exists |-> TRUE])]
       ELSE [st EXCEPT !.changes =
                Append(st.changes,
                       [index |-> i + 1, old_url |-> old_url,
                        new_url |-> expected_filename, exists |-> FALSE])]

\* the loop state before the first pass
LoopInit(content) == [new_content |-> content, offset |-> 0, changes |-> <<>>]

\* the loop state after the passes for matches 1..n
RECURSIVE LoopRun(_, _, _, _)
LoopRun(content, matches, available_images, n) ==
    IF n = 0 THEN LoopInit(content)
    ELSE LoopBody(LoopRun(content, matches, available_images, n - 1),
                  n - 1, matches[n], content, available_images)

\* replace_images_in_content(content, available_images, dry_run, folder_name)
replace_images_in_content(content, available_images, dry_run, folder_name) ==
    LET matches == finditer(content)
    IN IF matches = <<>>
       THEN [new_content |-> content, changes |-> <<>>]
       ELSE LET st == LoopRun(content, matches, available_images, Len(matches))
            IN [new_content |-> st.new_content, changes |-> st.changes]

\* ----------------------------------------------------- Article Processor
\* repr of a list of str: ['image-3.webp', 'image-4.webp']
RECURSIVE JoinQuoted(_)
JoinQuoted(names) ==
    IF names = <<>> THEN <<>>
    ELSE <<"'">> \o Head(names) \o <<"'">>
         \o (IF Len(names) > 1 THEN <<",", " ">> ELSE <<>>)
         \o JoinQuoted(Tail(names))

PyReprList(names) == <<"[">> \o JoinQuoted(names) \o <<"]">>

\* f"{len(missing)} immagini mancanti: {[c['new_url'] for c in missing]}"
MissingError(missing) ==
    IntToStr(Len(missing)) \o MISSING_TEXT
    \o PyReprList([j \in 1..Len(missing) |-> missing[j].new_url])

IsMissing(c) == ~c.exists

\* variant: one error is appended for each missing image
MismatchErrors_OnePerMissing(changes) ==
    LET missing == SelectSeq(changes, IsMissing)
    IN [j \in 1..Len(missing) |-> MissingError(<<missing[j]>>)]

\* lines 127-131: the errors appended for a list of Change Records
MismatchErrors(changes) ==
    LET images_with_files ==
            Cardinality({j \in 1..Len(changes) : changes[j].exists})
        missing == SelectSeq(changes, IsMissing)
    IN IF images_with_files # Len(changes)
       THEN <<MissingError(missing)>> ELSE <<>>

\* variant: the file is written whenever there are changes
WriteBack_IgnoreDryRun(bytes, html, start, end, new_content, changes, dry_run, sep) ==
    IF changes # <<>>
    THEN LET new_html == SliceTo(html, start) \o new_content \o SliceFrom(html, end)
         IN [wrote |-> TRUE, bytes |-> write_text(new_html, sep)]
    ELSE [wrote |-> FALSE, bytes |-> bytes]

\* lines 133-137: splice the new fragment in and overwrite the file, unless
\* this is a dry run or there are no changes
WriteBack(bytes, html, start, end, new_content, changes, dry_run, sep) ==
    IF ~dry_run /\ changes # <<>>
    THEN LET new_html == SliceTo(html, start) \o new_content \o SliceFrom(html, end)
         IN [wrote |-> TRUE, bytes |-> write_text(new_html, sep)]
    ELSE [wrote |-> FALSE, bytes |-> bytes]

\* process_article(folder, dry_run): folder is the path <<subdir, name>>,
\* bytes the content of its article.html, listing the names in the folder,
\* sep the platform's os.linesep.  Returns the Article Result, whether the
\* file was written, and the content of article.html afterwards.
process_article(folder, bytes, listing, dry_run, sep) ==
    LET html == read_text(bytes)
        available_images == get_available_images(listing)
        sec == extract_content_section(html)
        result == [folder |-> folder[2], path |-> folder,
                   changes |-> <<>>, errors |-> <<>>,
                   images_in_html |-> 0,
                   images_available |-> Len(available_images)]
    IN IF sec.start = -1
       THEN [result |-> [result EXCEPT !.errors = <<NO_CONTENT_ERROR>>],
             wrote |-> FALSE, bytes |-> bytes]
       ELSE LET r == replace_images_in_content(sec.content, available_images,
                                               dry_run, folder[2])
                changes == r.changes
                w == WriteBack(bytes, html, sec.start, sec.end, r.new_content,
                               changes, dry_run, sep)
            IN [result |-> [result EXCEPT !.changes = changes,
                                          !.images_in_html = Len(changes),
                                          !.errors = MismatchErrors(changes)],
                wrote |-> w.wrote,
                bytes |-> w.bytes]

\* -------------------------------------------------------- Folder Scanner
ARTICLE_HTML == <<"a", "r", "t", "i", "c", "l", "e", ".", "h", "t", "m", "l">>
ARTICLES == <<"a", "r", "t", "i", "c", "l", "e", "s">>
FEEDBACK_FRIDAY == <<"f", "e", "e", "d", "b", "a", "c", "k", "-", "f", "r", "i", "d", "a", "y">>
ASCII == <<"\t", "\n", "\r", " ", "\"", "-", ".", "/", "0", "1", "2", "3", "4", "5", "6", "7", "8", "9", ":", "<", "=", ">", "a", "b", "c", "d", "e", "f", "g", "h", "i", "j", "k", "l", "m", "n", "o", "p", "q", "r", "s", "t", "u", "v", "w", "x", "y", "z">>

\* ord(c)
Ord(c) == CHOOSE j \in 1..Len(ASCII) : ASCII[j] = c

\* a < b for two str
RECURSIVE StrLess(_, _)
StrLess(a, b) ==
    IF b = <<>> THEN FALSE
    ELSE IF a = <<>> THEN TRUE
    ELSE IF Head(a) # Head(b) THEN Ord(Head(a)) < Ord(Head(b))
    ELSE StrLess(Tail(a), Tail(b))

\* a < b for two paths below the base directory, compared part by part
PathLess(a, b) == StrLess(a[1], b[1]) \/ (a[1] = b[1] /\ StrLess(a[2], b[2]))

\* sorted(folders)
RECURSIVE SortPaths(_)
SortPaths(paths) ==
    IF paths = {} THEN <<>>
    ELSE LET first == CHOOSE x \in paths : \A y \in paths \ {x} : PathLess(x, y)
         IN <<first>> \o SortPaths(paths \ {first})

\* find_article_folders(base_path): subdirs are the top-level directories
\* that exist, tree maps every candidate path to what is on disk there
find_article_folders(subdirs, tree) ==
    SortPaths({d \in DOMAIN tree :
                  /\ d[1] \in {ARTICLES, FEEDBACK_FRIDAY}
                  /\ d[1] \in subdirs
                  /\ tree[d].kind = "dir"
                  /\ tree[d].has_article})

\* ================================================================ state
VARIABLES
    subdirs,           \* the top-level directories that exist below the base
    tree,              \* candidate folder -> [kind, has_article, bytes, listing]
    linesep,           \* os.linesep of the platform
    pc,                \* "idle" | "loop" | "done": position of main()
    dry_run,           \* args.dry_run of the current run
    folders,           \* main's folders list
    k,                 \* number of folders the for loop has handled
    results,           \* the Article Results of the current run, in order
    total_changes,     \* main's total_changes
    total_errors,      \* main's total_errors
    runs,              \* runs of main() started so far
    log,               \* history: one record per process_article call
    start_tree,        \* history: tree as it was when the current run began
    content,           \* engine: the fragment passed in
    available_images,  \* engine: the inventory passed in
    matches,           \* engine: list(img_pattern.finditer(content))
    i,                 \* engine: passes of the for loop finished
    loop,              \* engine: [new_content, offset, changes]
    engine_pc          \* engine: "call" | "loop" | "returned" | "off"

main_vars == <<subdirs, tree, linesep, pc, dry_run, folders, k, results,
               total_changes, total_errors, runs, log, start_tree>>
engine_vars == <<content, available_images, matches, i, loop, engine_pc>>
vars == <<subdirs, tree, linesep, pc, dry_run, folders, k, results,
          total_changes, total_errors, runs, log, start_tree,
          content, available_images, matches, i, loop, engine_pc>>

\* =============================================================== inputs
URL_SHORT == <<"u">>
URL_LONG == <<"h", "t", "t", "p", "s", ":", "/", "/", "c", "d", "n", ".", "x", "/", "a", ".", "j", "p", "g">>
IMG_NOSPACE == <<"<", "i", "m", "g", "s", "r", "c", "=", "\"", "u", "\"", ">">>
IMG_EMPTY == <<"<", "i", "m", "g", " ", "s", "r", "c", "=", "\"", "\"", ">">>
IMG_OPENQ == <<"<", "i", "m", "g", " ", "s", "r", "c", "=", "\"", "a">>
IMG_WS == <<"<", "i", "m", "g", "\n", "\t", "s", "r", "c", "=", "\"", "v", "\"">>
LINK == <<"<", "a", " ", "h", "r", "e", "f", "=", "\"", "u", "\"", ">">>
BODY_OPEN == <<"<", "b", "o", "d", "y", ">">>
COVER_JPG == <<"c", "o", "v", "e", "r", ".", "j", "p", "g">>
IMAGE_2_PNG == <<"i", "m", "a", "g", "e", "-", "2", ".", "p", "n", "g">>
NAME_A == <<"a">>
NAME_B == <<"b">>

\* <img src="url">
ImgTag(url) == IMG_OPEN \o <<" ">> \o SRC_EQ \o url \o <<QUOTE, ">">>

\* every concatenation of at most n of the pieces
RECURSIVE FragmentsOf(_, _)
FragmentsOf(pieces, n) ==
    IF n = 0 THEN {<<>>}
    ELSE LET shorter == FragmentsOf(pieces, n - 1)
         IN shorter \cup {f \o p : f \in shorter, p \in pieces}

\* engine inputs: URLs shorter than, longer than and equal to the expected
\* filename, a whitespace run, an unterminated src, and a stretch the
\* pattern does not match (the URL in a link, a tag without whitespace and
\* an empty src)
EnginePieces ==
    {ImgTag(URL_SHORT), ImgTag(URL_LONG), ImgTag(ExpectedFilename(2)),
     IMG_WS, IMG_OPENQ, LINK \o IMG_NOSPACE \o IMG_EMPTY}
\* ten <img> tags in a row, so that two-digit filenames are expected
TenImgs == Concat([j \in 1..10 |-> ImgTag(IF j % 2 = 0 THEN URL_SHORT ELSE URL_LONG)])
EngineFragments == FragmentsOf(EnginePieces, MaxPieces) \cup {TenImgs}
EngineInventories ==
    {SortByImageNumber(S) :
        S \in SUBSET {ExpectedFilename(2), ExpectedFilename(3), ExpectedFilename(4)}
              \cup {{ExpectedFilename(2), ExpectedFilename(10), ExpectedFilename(11)},
                    {ExpectedFilename(n) : n \in 2..11}}}

\* article inputs
ArticlePieces ==
    {ImgTag(URL_SHORT), ImgTag(URL_LONG), ImgTag(ExpectedFilename(2))}
ArticleFragments == FragmentsOf(ArticlePieces, MaxImgs)

\* a document around fragment f: bare; without a .content div; with <img>
\* tags and a link outside the fragment and LF line ends; with CRLF line ends
DocBare(f) == DIV_OPEN \o f \o DIV_CLOSE \o BODY_CLOSE
DocNoContent(f) == BODY_OPEN \o f \o BODY_CLOSE
DocOutside(f) ==
    ImgTag(URL_SHORT) \o <<LF>> \o DIV_OPEN \o f \o DIV_CLOSE \o DIV_CLOSE
    \o <<LF>> \o BODY_CLOSE \o ImgTag(URL_LONG)
DocCrLf(f) ==
    BODY_OPEN \o <<CR, LF>> \o DIV_OPEN \o f \o DIV_CLOSE \o <<CR, LF>>
    \o BODY_CLOSE
ArticleDocs ==
    UNION {{DocNoContent(f), DocOutside(f), DocCrLf(f)} : f \in ArticleFragments}

\* the names in a folder next to article.html
ArticleListings ==
    {{ARTICLE_HTML, COVER_JPG, IMAGE_2_PNG, ExpectedFilename(1)} \cup S :
        S \in SUBSET {ExpectedFilename(2), ExpectedFilename(3)}}

Dirs == {<<ARTICLES, NAME_A>>, <<ARTICLES, NAME_B>>, <<FEEDBACK_FRIDAY, NAME_A>>}

Absent == [kind |-> "absent", has_article |-> FALSE, bytes |-> <<>>, listing |-> {}]
Folder(bytes, listing) ==
    [kind |-> "dir", has_article |-> TRUE, bytes |-> bytes, listing |-> listing]

\* what a candidate folder may be when several folders are scanned: absent,
\* a plain file, a directory without article.html, or an article
SmallFolders ==
    {Absent,
     [kind |-> "file", has_article |-> FALSE, bytes |-> <<>>, listing |-> {}],
     [kind |-> "dir", has_article |-> FALSE, bytes |-> <<>>,
      listing |-> {ExpectedFilename(2)}],
     Folder(DocNoContent(ImgTag(URL_SHORT)), {ARTICLE_HTML, ExpectedFilename(2)}),
     Folder(DocBare(ImgTag(URL_SHORT)), {ARTICLE_HTML, ExpectedFilename(2)}),
     Folder(DocBare(ImgTag(URL_LONG)), {ARTICLE_HTML, COVER_JPG})}

\* ================================================================= Init
MainIdle ==
    /\ pc = "idle"
    /\ dry_run = FALSE
    /\ folders = <<>>
    /\ k = 0
    /\ results = <<>>
    /\ total_changes = 0
    /\ total_errors = 0
    /\ runs = 0
    /\ log = <<>>
    /\ start_tree = tree

EngineOff ==
    /\ content = <<>>
    /\ available_images = <<>>
    /\ matches = <<>>
    /\ i = 0
    /\ loop = LoopInit(<<>>)
    /\ engine_pc = "off"

\* several candidate folders, each in one of a few shapes
InitFolders ==
    /\ tree \in [Dirs -> SmallFolders]
    /\ subdirs \in SUBSET {ARTICLES, FEEDBACK_FRIDAY}
    /\ \A d \in Dirs : tree[d].kind # "absent" => d[1] \in subdirs
    /\ linesep = <<LF>>

\* one article, over every document and listing of the article inputs
InitArticle ==
    /\ \E doc \in ArticleDocs, listing \in ArticleListings :
          tree = [d \in Dirs |-> IF d = <<ARTICLES, NAME_A>>
                                 THEN Folder(doc, listing) ELSE Absent]
    /\ subdirs = {ARTICLES}
    /\ linesep \in {<<LF>>, <<CR, LF>>}

Init ==
    \/ InitFolders /\ MainIdle /\ EngineOff
    \/ InitArticle /\ MainIdle /\ EngineOff

\* ================================================================= main
\* lines 142-158: parse the flag, scan the folders
MainStart ==
    /\ pc \in {"idle", "done"}
    /\ runs < MaxRuns
    /\ \E flag \in BOOLEAN : dry_run' = flag
    /\ folders' = find_article_folders(subdirs, tree)
    /\ k' = 0
    /\ results' = <<>>
    /\ total_changes' = 0
    /\ total_errors' = 0
    /\ runs' = runs + 1
    /\ pc' = "loop"
    /\ start_tree' = tree
    /\ UNCHANGED <<subdirs, tree, linesep, log>>

\* variant: the for loop is left once an article reports an error
MainProcess_StopOnError ==
    /\ pc = "loop"
    /\ k < Len(folders)
    /\ \E folder \in {folders[k + 1]} :
       \E r \in {process_article(folder, tree[folder].bytes,
                                 tree[folder].listing, dry_run, linesep)} :
       LET result == r.result
       IN /\ tree' = [tree EXCEPT ![folder].bytes = r.bytes]
          /\ results' = Append(results, result)
          /\ total_changes' = total_changes + Len(result.changes)
          /\ total_errors' = total_errors + Len(result.errors)
          /\ log' = Append(log, [run |-> runs, folder |-> folder,
                                 dry_run |-> dry_run,
                                 before |-> tree[folder].bytes,
                                 after |-> r.bytes,
                                 wrote |-> r.wrote,
                                 result |-> result])
          /\ pc' = IF result.errors # <<>> THEN "done" ELSE pc
    /\ k' = k + 1
    /\ UNCHANGED <<subdirs, linesep, dry_run, folders, runs, start_tree>>

\* lines 160-181: one pass of the for loop
MainProcess ==
    /\ pc = "loop"
    /\ k < Len(folders)
    /\ \E folder \in {folders[k + 1]} :
       \E r \in {process_article(folder, tree[folder].bytes,
                                 tree[folder].listing, dry_run, linesep)} :
       LET result == r.result
       IN /\ tree' = [tree EXCEPT ![folder].bytes = r.bytes]
          /\ results' = Append(results, result)
          /\ total_changes' =
                IF result.changes # <<>>
                THEN total_changes + Len(result.changes) ELSE total_changes
          /\ total_errors' =
                IF result.errors # <<>>
                THEN total_errors + Len(result.errors) ELSE total_errors
          /\ log' = Append(log, [run |-> runs, folder |-> folder,
                                 dry_run |-> dry_run,
                                 before |-> tree[folder].bytes,
                                 after |-> r.bytes,
                                 wrote |-> r.wrote,
                                 result |-> result])
    /\ k' = k + 1
    /\ UNCHANGED <<subdirs, linesep, pc, dry_run, folders, runs, start_tree>>

\* lines 183-190: the loop is over, the summary is printed
MainSummary ==
    /\ pc = "loop"
    /\ k = Len(folders)
    /\ pc' = "done"
    /\ UNCHANGED <<subdirs, tree, linesep, dry_run, folders, k, results,
                   total_changes, total_errors, runs, log, start_tree>>

Next ==
    \/ MainStart /\ UNCHANGED engine_vars
    \/ MainProcess /\ UNCHANGED engine_vars
    \/ MainSummary /\ UNCHANGED engine_vars

Spec == Init /\ [][Next]_vars

\* =============================================================== engine
\* replace_images_in_content called on a fragment and an inventory
EngineInit ==
    /\ content \in EngineFragments
    /\ available_images \in EngineInventories
    /\ matches = <<>>
    /\ i = 0
    /\ loop = LoopInit(content)
    /\ engine_pc = "call"
    /\ subdirs = {}
    /\ tree = [d \in Dirs |-> Absent]
    /\ linesep = <<LF>>
    /\ MainIdle

\* lines 46-56: scan, return at once when nothing matches
EngineScan ==
    /\ engine_pc = "call"
    /\ matches' = finditer(content)
    /\ engine_pc' = IF matches' = <<>> THEN "returned" ELSE "loop"
    /\ UNCHANGED <<content, available_images, i, loop>>

\* lines 58-89: one pass of the for loop
EngineLoop ==
    /\ engine_pc = "loop"
    /\ i < Len(matches)
    /\ loop' = LoopBody(loop, i, matches[i + 1], content, available_images)
    /\ i' = i + 1
    /\ UNCHANGED <<content, available_images, matches, engine_pc>>

\* line 91
EngineReturn ==
    /\ engine_pc = "loop"
    /\ i = Len(matches)
    /\ engine_pc' = "returned"
    /\ UNCHANGED <<content, available_images, matches, i, loop>>

EngineNext ==
    \/ EngineScan /\ UNCHANGED main_vars
    \/ EngineLoop /\ UNCHANGED main_vars
    \/ EngineReturn /\ UNCHANGED main_vars

SpecEngine == EngineInit /\ [][EngineNext]_vars

\* ======================================================= engine claims
\* "image-<n>.webp" written out for n below 100
ClaimName(n) ==
    <<"i", "m", "a", "g", "e", "-">>
    \o (IF n < 10 THEN <<Digits[n + 1]>>
        ELSE <<Digits[(n \div 10) + 1], Digits[(n % 10) + 1]>>)
    \o <<".", "w", "e", "b", "p">>

\* the URL of occurrence m in text s
UrlOf(s, m) == Slice(s, m.s1, m.e1)

\* p occurs in s as a substring
Occurs(p, s) == \E q \in 0..Len(s) : StartsAt(s, p, q)

\* the sum of f[1..n]
RECURSIVE SumTo(_, _)
SumTo(f, n) == IF n = 0 THEN 0 ELSE f[n] + SumTo(f, n - 1)

EngineReturned == engine_pc = "returned"

\* the expected file of the j-th occurrence (1-based) is in the inventory
Present(j) == InList(ClaimName(j + 1), available_images)
AllPresent == \A j \in 1..Len(matches) : Present(j)

\* C1: replace_images_in_content returns one Change Record per <img>
\* occurrence, in scan order: the record at 0-based scan position i has
\* index i+1, old_url the i-th occurrence's URL and new_url
\* "image-(i+2).webp", whether or not that file is in the inventory.
C1_RecordsFollowOccurrences ==
    EngineReturned =>
        /\ loop.changes =
              replace_images_in_content(content, available_images, FALSE, NAME_A).changes
        /\ Len(loop.changes) = Len(matches)
        /\ \A j \in 1..Len(matches) :
              /\ j > 1 => matches[j - 1].end <= matches[j].s1
              /\ loop.changes[j].index = j
              /\ loop.changes[j].old_url = UrlOf(content, matches[j])
              /\ loop.changes[j].new_url = ClaimName(j + 1)
              /\ loop.changes[j].exists = Present(j)

\* C1 witness: three occurrences, the second one's file missing
C1_Witness ==
    /\ EngineReturned
    /\ Len(matches) = 3
    /\ Present(1) /\ ~Present(2) /\ Present(3)
    /\ loop.changes[2].new_url = ClaimName(3)

\* C2 as stated: k records indexed 1..k, with new_url "image-(i+1).webp"
\* at 0-based scan position i.
C2_Original ==
    EngineReturned =>
        /\ Len(loop.changes) = Len(matches)
        /\ \A j \in 1..Len(loop.changes) :
              /\ loop.changes[j].index = j
              /\ loop.changes[j].new_url = ClaimName(j)

\* C2 amended: k records indexed 1..k, with new_url "image-(i+2).webp"
\* at 0-based scan position i (display index i+1, filename index i+2).
C2_FilenameIndexIsPositionPlusTwo ==
    EngineReturned =>
        /\ DOMAIN loop.changes = 1..Len(matches)
        /\ {loop.changes[j].index : j \in DOMAIN loop.changes} = 1..Len(matches)
        /\ \A j \in 1..Len(loop.changes) :
              /\ loop.changes[j].index = j
              /\ loop.changes[j].new_url = ClaimName(loop.changes[j].index + 1)

\* C2 witness: ten occurrences, so the last record names image-11.webp
C2_Witness ==
    /\ EngineReturned
    /\ Len(matches) = 10
    /\ loop.changes[10].index = 10
    /\ loop.changes[10].new_url =
          <<"i", "m", "a", "g", "e", "-", "1", "1", ".", "w", "e", "b", "p">>

\* the length differences of the replacements, one per occurrence
LengthDeltas ==
    [j \in 1..Len(loop.changes) |->
        Len(loop.changes[j].new_url) - Len(loop.changes[j].old_url)]

C6_LengthDelta ==
    Len(loop.new_content) - Len(content) = SumTo(LengthDeltas, Len(loop.changes))

\* C6 as stated: with every expected file in the inventory, no original
\* URL is left anywhere in the output fragment, and the length difference
\* of the fragment is the sum of the occurrences' length differences.
C6_Original ==
    (EngineReturned /\ AllPresent) =>
        /\ \A j \in 1..Len(loop.changes) :
              ~Occurs(loop.changes[j].old_url, loop.new_content)
        /\ C6_LengthDelta

\* C6 amended: with every expected file in the inventory, every <img>
\* occurrence of the output fragment has its expected filename as URL, and
\* the length difference of the fragment is the sum of the occurrences'
\* length differences.
C6_AllOccurrencesReplaced ==
    (EngineReturned /\ AllPresent) =>
        LET out == finditer(loop.new_content)
        IN /\ Len(out) = Len(matches)
           /\ \A j \in 1..Len(out) : UrlOf(loop.new_content, out[j]) = ClaimName(j + 1)
           /\ C6_LengthDelta

\* C6 witness: three occurrences with URLs of different lengths, all replaced
C6_Witness ==
    /\ EngineReturned
    /\ AllPresent
    /\ Len(matches) = 3
    /\ Len(loop.changes[1].old_url) < Len(loop.changes[1].new_url)
    /\ Len(loop.changes[2].old_url) > Len(loop.changes[2].new_url)
    /\ Len(loop.new_content) # Len(content)

\* the replacements for occurrences 1..n applied to s from the last one to
\* the first, at the spans of the original fragment
RECURSIVE BackToFront(_, _)
BackToFront(s, n) ==
    IF n = 0 THEN s
    ELSE LET m == matches[n]
             t == IF Present(n)
                  THEN SubSeq(s, 1, m.s1) \o ClaimName(n + 1)
                       \o SubSeq(s, m.e1 + 1, Len(s))
                  ELSE s
         IN BackToFront(t, n - 1)

\* C9: the running-offset substitution yields the string that applying the
\* same replacements back to front on the original fragment yields, for
\* any mix of present and missing files and any URL lengths.
C9_OffsetEqualsBackToFront ==
    /\ EngineReturned => loop.new_content = BackToFront(content, Len(matches))
    /\ engine_pc = "loop" =>
          loop.offset = Len(loop.new_content) - Len(content)

\* C9 witness: a shorter URL replaced, a missing file, then a longer URL
\* replaced after the offset has become non-zero
C9_Witness ==
    /\ EngineReturned
    /\ Len(matches) = 3
    /\ Present(1) /\ ~Present(2) /\ Present(3)
    /\ Len(loop.changes[1].old_url) < Len(loop.changes[1].new_url)
    /\ Len(loop.changes[3].old_url) > Len(loop.changes[3].new_url)
    /\ loop.new_content # content

\* ====================================================== article claims
InRun == pc \in {"loop", "done"}

\* the log record of the j-th call of the current run
CallOf(j) == log[Len(log) - k + j]

\* the record of the latest call; every record is the latest one in the
\* state its call leads to
LastCall == log[Len(log)]

\* process_article has just returned to the for loop
JustCalled == pc = "loop" /\ k > 0

ListingOf(e) == tree[e.folder].listing

\* the expected file of the j-th occurrence (1-based) is in the folder
FileThere(e, j) == ClaimName(j + 1) \in ListingOf(e)

\* exists = true with a URL that differs from the filename
RealChange(c) == c.exists /\ c.old_url # c.new_url

\* C3: preview mode never changes an article.html, whatever the articles
\* hold, and returns the Change Records and errors apply mode would return.
C3_PreviewWritesNothing ==
    /\ (InRun /\ dry_run) => \A d \in Dirs : tree[d] = start_tree[d]
    /\ \A n \in 1..Len(log) :
          log[n].dry_run => ~log[n].wrote /\ log[n].after = log[n].before
    /\ (JustCalled /\ LastCall.dry_run) =>
          LET e == LastCall
              apply == process_article(e.folder, e.before, ListingOf(e),
                                       FALSE, linesep)
          IN /\ e.result.changes = apply.result.changes
             /\ e.result.errors = apply.result.errors

\* C3 witness: a preview run is over that met an article without .content,
\* one with a missing image and one that apply mode would have rewritten
C3_Witness ==
    /\ pc = "done"
    /\ dry_run
    /\ k = 3
    /\ \E j \in 1..k : CallOf(j).result.errors = <<NO_CONTENT_ERROR>>
    /\ \E j \in 1..k : \E n \in 1..Len(CallOf(j).result.changes) :
          ~CallOf(j).result.changes[n].exists
    /\ \E j \in 1..k :
          /\ \E n \in 1..Len(CallOf(j).result.changes) :
                RealChange(CallOf(j).result.changes[n])
          /\ process_article(CallOf(j).folder, CallOf(j).before,
                             ListingOf(CallOf(j)), FALSE, linesep).bytes
                # CallOf(j).before

\* the apply-mode calls on the folder of the latest call that came before it
EarlierApplies ==
    {n \in 1..(Len(log) - 1) :
        log[n].folder = LastCall.folder /\ ~log[n].dry_run}

\* C4: an apply-mode call that follows an apply-mode call on the same
\* article leaves article.html as the first call left it and returns as
\* many Change Records with the same index, new_url and exists; every URL
\* it replaces already is its expected filename.
C4_ApplyTwiceIsIdempotent ==
    (JustCalled /\ ~LastCall.dry_run /\ EarlierApplies # {}) =>
        LET first == log[CHOOSE n \in EarlierApplies :
                            \A o \in EarlierApplies : o <= n]
            second == LastCall
            c1 == first.result.changes
            c2 == second.result.changes
        IN /\ second.before = first.after
           /\ second.after = first.after
           /\ Len(c2) = Len(c1)
           /\ \A j \in 1..Len(c2) :
                 /\ c2[j].index = c1[j].index
                 /\ c2[j].new_url = c1[j].new_url
                 /\ c2[j].exists = c1[j].exists
                 /\ c2[j].exists =>
                       /\ c2[j].old_url = c2[j].new_url
                       /\ Len(c2[j].new_url) - Len(c2[j].old_url) = 0

\* C4 witness: the second apply-mode call on an article whose first call
\* replaced one URL and found another image missing
C4_Witness ==
    /\ JustCalled
    /\ ~LastCall.dry_run
    /\ \E n \in EarlierApplies :
          /\ log[n].after # log[n].before
          /\ \E j \in 1..Len(log[n].result.changes) :
                RealChange(log[n].result.changes[j])
          /\ \E j \in 1..Len(log[n].result.changes) :
                ~log[n].result.changes[j].exists
    /\ LastCall.wrote

\* C5 as claimed: after an apply-mode call that writes the file, the text
\* of article.html before the fragment's start and from the fragment's end
\* on is the text the file had before the call.
C5_OutsideFragmentUntouched ==
    (JustCalled /\ LastCall.wrote) =>
        LET e == LastCall
            sec == extract_content_section(e.before)
            tail == Len(e.before) - sec.end
        IN /\ sec.start # -1
           /\ SubSeq(e.after, 1, sec.start) = SubSeq(e.before, 1, sec.start)
           /\ SubSeq(e.after, Len(e.after) - tail + 1, Len(e.after))
                 = SubSeq(e.before, sec.end + 1, Len(e.before))

\* the names of the missing files among the first n occurrences of call e
RECURSIVE MissingNames(_, _)
MissingNames(e, n) ==
    IF n = 0 THEN <<>>
    ELSE MissingNames(e, n - 1)
         \o (IF FileThere(e, n) THEN <<>> ELSE <<ClaimName(n + 1)>>)

\* 'a', 'b', 'c'
RECURSIVE ClaimJoin(_)
ClaimJoin(names) ==
    IF Len(names) = 0 THEN <<>>
    ELSE IF Len(names) = 1 THEN <<"'">> \o names[1] \o <<"'">>
    ELSE ClaimJoin(SubSeq(names, 1, Len(names) - 1))
         \o <<",", " ", "'">> \o names[Len(names)] \o <<"'">>

\* "N immagini mancanti: ['a', 'b']"
ClaimMissingError(names) ==
    <<Digits[Len(names) + 1]>>
    \o <<" ", "i", "m", "m", "a", "g", "i", "n", "i", " ", "m", "a", "n", "c", "a", "n", "t", "i", ":", " ", "[">>
    \o ClaimJoin(names) \o <<"]">>

\* C7: an occurrence whose expected file is not in the folder keeps its
\* URL in the output fragment and gets a record with exists = false, the
\* others are replaced; the article gets exactly one error "N immagini
\* mancanti: [...]" naming the missing files in scan order, and none when
\* no file is missing.
C7_MissingImagesAreReported ==
    JustCalled =>
        LET e == LastCall
            sec == extract_content_section(read_text(e.before))
        IN sec.start # -1 =>
           LET occ == finditer(sec.content)
               out == replace_images_in_content(
                          sec.content, get_available_images(ListingOf(e)),
                          e.dry_run, e.folder[2]).new_content
               outocc == finditer(out)
               ch == e.result.changes
               missing == MissingNames(e, Len(occ))
           IN /\ Len(ch) = Len(occ)
              /\ Len(outocc) = Len(occ)
              /\ \A j \in 1..Len(occ) :
                    /\ ch[j].exists = FileThere(e, j)
                    /\ UrlOf(out, outocc[j]) =
                          IF FileThere(e, j) THEN ClaimName(j + 1)
                          ELSE UrlOf(sec.content, occ[j])
              /\ e.result.errors =
                    IF missing = <<>> THEN <<>> ELSE <<ClaimMissingError(missing)>>
              /\ e.wrote =>
                    extract_content_section(read_text(e.after)).content = out

\* C7 witness: two occurrences, the first replaced, the second's file
\* missing, written in apply mode
C7_Witness ==
    /\ JustCalled
    /\ LastCall.wrote
    /\ Len(LastCall.result.changes) = 2
    /\ RealChange(LastCall.result.changes[1])
    /\ ~LastCall.result.changes[2].exists
    /\ LastCall.result.errors =
          <<ClaimMissingError(<<ClaimName(3)>>)>>

\* the article.html of folder d had no .content fragment when the run began
NoContentAt(d) ==
    extract_content_section(read_text(start_tree[d].bytes)).start = -1

\* s without its j-th element
RemoveAt(s, j) == SubSeq(s, 1, j - 1) \o SubSeq(s, j + 1, Len(s))

\* C8: an article without .content fragment gets the single error
\* "Sezione .content non trovata" and no Change Records and is not written,
\* also in apply mode; the loop goes on to every later folder of the sorted
\* scanner output, in order, with the results it would have were the
\* failing article absent.
C8_MissingContentIsConfined ==
    InRun =>
        /\ Len(results) = k
        /\ k <= Len(folders)
        /\ pc = "done" => k = Len(folders)
        /\ folders = find_article_folders(subdirs, start_tree)
        /\ \A j \in 1..k : results[j].path = folders[j]
        /\ \A j \in 1..k : NoContentAt(folders[j]) =>
              /\ results[j].errors = <<NO_CONTENT_ERROR>>
              /\ results[j].changes = <<>>
              /\ ~CallOf(j).wrote
              /\ tree[folders[j]] = start_tree[folders[j]]
              /\ find_article_folders(
                     subdirs, [start_tree EXCEPT ![folders[j]] = Absent])
                    = RemoveAt(folders, j)
              /\ \A n \in (j + 1)..k :
                    results[n] =
                        process_article(folders[n], start_tree[folders[n]].bytes,
                                        start_tree[folders[n]].listing,
                                        dry_run, linesep).result

\* C8 witness: an apply run is over in which an article without .content
\* came before an article that was rewritten
C8_Witness ==
    /\ pc = "done"
    /\ ~dry_run
    /\ \E j \in 1..k, n \in 1..k :
          /\ j < n
          /\ NoContentAt(folders[j])
          /\ results[j].errors = <<NO_CONTENT_ERROR>>
          /\ CallOf(n).wrote
          /\ CallOf(n).after # CallOf(n).before

\* C10 as claimed: in apply mode article.html differs from what it was only
\* if some Change Record has exists = true and old_url # new_url; with
\* occurrences but no expected file in the folder the file is overwritten
\* with its own content; without occurrences nothing is written.
C10_ContentChangesOnlyWithRealChange ==
    (JustCalled /\ ~LastCall.dry_run) =>
        LET e == LastCall
            ch == e.result.changes
        IN /\ e.after # e.before => \E j \in 1..Len(ch) : RealChange(ch[j])
           /\ (ch # <<>> /\ \A j \in 1..Len(ch) : ~ch[j].exists) =>
                 e.wrote /\ e.after = e.before
           /\ ch = <<>> => ~e.wrote /\ e.after = e.before

====
